---- MODULE Spec2Model ----
(***************************************************************************)
(* A model of the asynchronous-collection combinators of rsvp.js: hash,    *)
(* map, filter (and the pieces of the promise primitive and of the join    *)
(* "all" they consume).  One behaviour is one program run: some input      *)
(* collection is built, a combinator is invoked on it once per invocation  *)
(* id, the environment settles the pending inputs, and the single-threaded *)
(* task queue runs the continuations one turn at a time, in FIFO order.    *)
(***************************************************************************)
EXTENDS Integers, Sequences, FiniteSets, TLC

\* Largest inputs: keys of the mapping given to hash, length of the sequence
\* given to map and filter.
MaxKeys == 3
MaxLen == 2

\* rethrow: most .fail(rethrow) links in one chain, most direct calls.
MaxChain == 2
MaxDirect == 2

\* filter with a predicate whose answers may change between calls: most
\* passes explored (the predicate returns no future on pass MaxPass).
MaxPass == 3

\* Two invocations on settled inputs: largest input collection.
MaxSettled == 1

\* Settled values of the inputs and rejection reasons of the inputs.
Vals == {"x", "y"}
Reasons == {"e1", "e2"}

\* What the callback passed to map/filter does with an item:
\*   "T"  returns a plain truthy value (for map: returns normally)
\*   "F"  returns a plain falsy value
\*   "PT" returns a future that fulfils truthy
\*   "PF" returns a future that fulfils falsy
\*   "PR" returns a future that rejects
\*   "X"  raises
PredKinds == {"T", "F", "PT", "PF", "PR"}
MapKinds == {"T", "X"}

VARIABLES
  invs,      \* the ids of the invocations of this run
  op,        \* the combinator this run invokes: "hash", "map" or "filter"
  args,      \* shape of the arguments: [isArray, isFunction]
  fnKind,    \* the callback, as a table from item value to what it does
  pure,      \* TRUE: the callback's outcome depends only on the item
  input,     \* the input collection: key/index -> entry (plain value or future)
  subs,      \* per input future, the invocations subscribed to it, in order
  queue,     \* the task queue of the event loop (FIFO)
  inv,       \* per invocation, its activation: accumulators and promises
  chain,     \* rethrow: a promise followed by its .fail(rethrow) derivations
  timers,    \* rethrow: the reasons of the tasks setTimeout has scheduled
  uncaught,  \* rethrow: the reasons raised out of a timer task, in order
  raised,    \* rethrow: the reasons raised into a direct caller, in order
  rethrown,  \* rethrow: the reasons rethrow was called with, in order
  seen       \* rethrow: what the handlers after the chain were called with

rtVars == <<chain, timers, uncaught, raised, rethrown, seen>>
vars == <<invs, op, args, fnKind, pure, input, subs, queue, inv, rtVars>>
envVars == <<invs, op, args, fnKind, pure, rtVars>>

----------------------------------------------------------------------------
(* The promise primitive: a single-assignment cell.                        *)

PendingPromise == [state |-> "pending", value |-> <<>>, reason |-> "none"]

resolve(p, v) ==
  IF p.state = "pending"
  THEN [state |-> "fulfilled", value |-> v, reason |-> "none"]
  ELSE p

reject(p, r) ==
  IF p.state = "pending"
  THEN [state |-> "rejected", value |-> <<>>, reason |-> r]
  ELSE p

Settled(p) == p.state \in {"fulfilled", "rejected"}

\* An entry of the input collection.
Plain(v) == [isPromise |-> FALSE, state |-> "plain", value |-> v, reason |-> "none"]
PendingEntry == [isPromise |-> TRUE, state |-> "pending", value |-> "none", reason |-> "none"]

Task(kind, i, pos, p) == [kind |-> kind, inv |-> i, pos |-> pos, pass |-> p]

\* promise.then(...) on each of the futures `thens` (in that order) by
\* invocation i: a pending future records the subscriber; a settled one
\* schedules the continuation at once.
subscribe(sb, entries, thens, i) ==
  [k \in DOMAIN sb |->
     IF (\E j \in 1..Len(thens) : thens[j] = k) /\ entries[k].state = "pending"
     THEN Append(sb[k], i) ELSE sb[k]]

RECURSIVE scheduled(_, _, _, _)
scheduled(entries, thens, i, p) ==
  IF thens = <<>> THEN <<>>
  ELSE (IF Settled(entries[Head(thens)])
        THEN <<Task("deliver", i, Head(thens), p)>> ELSE <<>>)
       \o scheduled(entries, Tail(thens), i, p)

\* The continuations of a future that has just settled, in attachment order.
published(sb, k, p) == [j \in 1..Len(sb) |-> Task("deliver", sb[j], k, p)]

----------------------------------------------------------------------------
(* hash                                                                    *)

Min(S) == CHOOSE a \in S : \A b \in S : a <= b

RECURSIVE SortedSeq(_)
SortedSeq(S) == IF S = {} THEN <<>> ELSE <<Min(S)>> \o SortedSeq(S \ {Min(S)})

keysOf(object) == SortedSeq(DOMAIN object)

Put(f, k, v) == [a \in DOMAIN f \cup {k} |-> IF a = k THEN v ELSE f[a]]

\* Faulty variant: resolves one entry early (remaining <= 1).
hashResolveAllOffByOne(acc, prop, value) ==
  LET results == Put(acc.results, prop, value)
      remaining == acc.remaining - 1
  IN [acc EXCEPT !.results = results,
                 !.remaining = remaining,
                 !.promise = IF remaining <= 1 THEN resolve(@, results) ELSE @]

\* Faulty variant: the check of remaining against zero is missing.
hashResolveAllNeverResolves(acc, prop, value) ==
  LET results == Put(acc.results, prop, value)
      remaining == acc.remaining - 1
  IN [acc EXCEPT !.results = results,
                 !.remaining = remaining]

\* resolveAll(prop, value): acc is the closure state [results, remaining,
\* promise, thens].
hashResolveAll(acc, prop, value) ==
  LET results == Put(acc.results, prop, value)
      remaining == acc.remaining - 1
  IN [acc EXCEPT !.results = results,
                 !.remaining = remaining,
                 !.promise = IF remaining = 0 THEN resolve(@, results) ELSE @]

\* Faulty variant: a plain value is recorded but not counted.
RECURSIVE hashLoopPlainNotCounted(_, _, _)
hashLoopPlainNotCounted(keys, object, acc) ==
  IF keys = <<>> THEN acc
  ELSE LET prop == Head(keys)
           promise == object[prop]
       IN hashLoopPlainNotCounted(Tail(keys), object,
            IF promise.isPromise
            THEN [acc EXCEPT !.thens = Append(@, prop)]
            ELSE [acc EXCEPT !.results = Put(@, prop, promise.value)])

RECURSIVE hashLoop(_, _, _)
\* for (i = 0; i < keys.length; i++) { ... }
hashLoop(keys, object, acc) ==
  IF keys = <<>> THEN acc
  ELSE LET prop == Head(keys)
           promise == object[prop]
       IN hashLoop(Tail(keys), object,
                   IF promise.isPromise
                   THEN [acc EXCEPT !.thens = Append(@, prop)]
                   ELSE hashResolveAll(acc, prop, promise.value))

\* Faulty variant: no short-circuit for a mapping without keys.
hashResolverNoShortCircuit(keys, object) ==
  hashLoop(keys, object, [results |-> <<>>, remaining |-> Len(keys),
                          promise |-> PendingPromise, thens |-> <<>>])

\* The body of the resolver function passed to new Promise.
hashResolver(keys, object) ==
  LET start == [results |-> <<>>, remaining |-> Len(keys),
                promise |-> PendingPromise, thens |-> <<>>]
  IN IF start.remaining = 0
     THEN [start EXCEPT !.promise = resolve(@, <<>>)]
     ELSE hashLoop(keys, object, start)

NotCalled ==
  [pass |-> 0, thrown |-> [name |-> "none", message |-> ""], work |-> <<>>, results |-> <<>>,
   remaining |-> 0, jp |-> PendingPromise, ret |-> <<>>, calls |-> <<>>]

hash(i) ==
  /\ op = "hash"
  /\ inv[i].pass = 0
  /\ LET acc == hashResolver(keysOf(input), input)
     IN /\ inv' = [inv EXCEPT ![i] = [@ EXCEPT !.pass = 1,
                                               !.results = acc.results,
                                               !.remaining = acc.remaining,
                                               !.ret = <<acc.promise>>]]
        /\ subs' = subscribe(subs, input, acc.thens, i)
        /\ queue' = queue \o scheduled(input, acc.thens, i, 1)
  /\ UNCHANGED <<envVars, input>>

\* Faulty variant: the resolver is attached as the rejection handler too,
\* so a reason is recorded as if it were a value.
hashHandlerRejectionAsValue(a, entry, prop) ==
  LET acc == [results |-> a.results, remaining |-> a.remaining,
              promise |-> a.ret[1], thens |-> <<>>]
      out == hashResolveAll(acc, prop, IF entry.state = "fulfilled"
                                       THEN entry.value ELSE entry.reason)
  IN [a EXCEPT !.results = out.results,
               !.remaining = out.remaining,
               !.ret = <<out.promise>>]

\* A continuation hash attached to entry `prop` runs: resolver(prop) on
\* fulfilment, reject on rejection.
hashHandler(a, entry, prop) ==
  LET acc == [results |-> a.results, remaining |-> a.remaining,
              promise |-> a.ret[1], thens |-> <<>>]
      out == IF entry.state = "fulfilled"
             THEN hashResolveAll(acc, prop, entry.value)
             ELSE [acc EXCEPT !.promise = reject(@, entry.reason)]
  IN [a EXCEPT !.results = out.results,
               !.remaining = out.remaining,
               !.ret = <<out.promise>>]

hashDeliver ==
  /\ op = "hash"
  /\ queue # <<>>
  /\ Head(queue).kind = "deliver"
  /\ LET t == Head(queue)
     IN inv' = [inv EXCEPT ![t.inv] = hashHandler(@, input[t.pos], t.pos)]
  /\ queue' = Tail(queue)
  /\ UNCHANGED <<envVars, input, subs>>

----------------------------------------------------------------------------
(* The environment settles a pending input future.                         *)

Settle(k) ==
  /\ input[k].state = "pending"
  /\ \/ \E v \in Vals :
          input' = [input EXCEPT ![k] = [@ EXCEPT !.state = "fulfilled", !.value = v]]
     \/ \E r \in Reasons :
          input' = [input EXCEPT ![k] = [@ EXCEPT !.state = "rejected", !.reason = r]]
  /\ queue' = queue \o published(subs[k], k, 1)
  /\ subs' = [subs EXCEPT ![k] = <<>>]
  /\ UNCHANGED <<envVars, inv>>

----------------------------------------------------------------------------
(* The join primitive "all" over a sequence of entries.                    *)

\* The settled value of input k as the join delivers it to map and filter:
\* the item, tagged with the index it came from.
Item(k, v) == [tag |-> "item", idx |-> k, val |-> v, ok |-> FALSE]

\* new FilterResult(value, returnedSuccessfully)
FilterResult(value, returnedSuccessfully) ==
  [tag |-> "FilterResult", idx |-> value.idx, val |-> value.val,
   ok |-> returnedSuccessfully]

\* The input sequence as the first join sees it.
inputView ==
  [k \in DOMAIN input |->
     [isPromise |-> input[k].isPromise, state |-> input[k].state,
      value |-> Item(k, input[k].value), reason |-> input[k].reason]]

allResolveAll(acc, index, value) ==
  LET results == Put(acc.results, index, value)
      remaining == acc.remaining - 1
  IN [acc EXCEPT !.results = results,
                 !.remaining = remaining,
                 !.promise = IF remaining = 0 THEN resolve(@, results) ELSE @]

RECURSIVE allLoop(_, _, _)
allLoop(entries, index, acc) ==
  IF index > Len(entries) THEN acc
  ELSE allLoop(entries, index + 1,
               IF entries[index].isPromise
               THEN [acc EXCEPT !.thens = Append(@, index)]
               ELSE allResolveAll(acc, index, entries[index].value))

all(entries) ==
  LET start == [results |-> <<>>, remaining |-> Len(entries),
                promise |-> PendingPromise, thens |-> <<>>]
  IN IF start.remaining = 0
     THEN [start EXCEPT !.promise = resolve(@, <<>>)]
     ELSE allLoop(entries, 1, start)

\* A continuation of the join on entry `index` runs.
allHandler(a, entry, index) ==
  LET acc == [results |-> a.results, remaining |-> a.remaining,
              promise |-> a.jp, thens |-> <<>>]
      out == IF entry.state = "fulfilled"
             THEN allResolveAll(acc, index, entry.value)
             ELSE [acc EXCEPT !.promise = reject(@, entry.reason)]
  IN [a EXCEPT !.results = out.results,
               !.remaining = out.remaining,
               !.jp = out.promise]

\* joined.then(callback): the callback's turn is scheduled when the joined
\* promise is (or becomes) settled.
thenTask(before, after, i, p) ==
  IF ~Settled(before) /\ Settled(after) THEN <<Task("body", i, 0, p)>> ELSE <<>>

\* The promise returned by pass p settles; the promise of the enclosing
\* pass, which was resolved with it, follows on a later turn.
adoptTask(i, p) == IF p > 1 THEN <<Task("adopt", i, 0, p - 1)>> ELSE <<>>

----------------------------------------------------------------------------
(* map and filter: argument validation and the first join.                 *)

NoThrow == [name |-> "none", message |-> ""]

\* Faulty variant: the callback is not checked.
mapValidateArrayOnly(a) ==
  IF ~a.isArray
  THEN [name |-> "TypeError", message |-> "You must pass an array to map."]
  ELSE [name |-> "none", message |-> ""]

mapValidate(a) ==
  IF ~a.isArray
  THEN [name |-> "TypeError", message |-> "You must pass an array to map."]
  ELSE IF ~a.isFunction
  THEN [name |-> "TypeError",
        message |-> "You must pass a function to map's second argument."]
  ELSE NoThrow

filterValidate(a) ==
  IF ~a.isArray
  THEN [name |-> "TypeError", message |-> "You must pass an array to filter."]
  ELSE IF ~a.isFunction
  THEN [name |-> "TypeError",
        message |-> "You must pass a function to filter's second argument."]
  ELSE NoThrow

\* return all(promises, label).then(callback), as pass p of invocation i.
joinThen(a, entries, p) ==
  LET acc == all(entries)
  IN [a EXCEPT !.pass = p,
               !.results = acc.results,
               !.remaining = acc.remaining,
               !.jp = acc.promise,
               !.ret = Append(@, PendingPromise)]

\* Faulty variant: results and remaining live outside the call, so that a
\* call resets those of the invocations under way.
seqCallSharedAccumulator(i, error) ==
  /\ inv[i].pass = 0
  /\ inv[i].thrown = NoThrow
  /\ IF error # NoThrow
     THEN /\ inv' = [inv EXCEPT ![i] = [@ EXCEPT !.thrown = error]]
          /\ UNCHANGED <<subs, queue>>
     ELSE LET acc == all(inputView)
          IN /\ inv' = [j \in DOMAIN inv |->
                          IF j = i THEN joinThen(inv[j], inputView, 1)
                          ELSE IF inv[j].pass > 0
                          THEN [inv[j] EXCEPT !.results = acc.results,
                                              !.remaining = acc.remaining]
                          ELSE inv[j]]
             /\ subs' = subscribe(subs, input, acc.thens, i)
             /\ queue' = queue \o scheduled(input, acc.thens, i, 1)
                               \o thenTask(PendingPromise, acc.promise, i, 1)
  /\ UNCHANGED <<envVars, input>>

seqCall(i, error) ==
  /\ inv[i].pass = 0
  /\ inv[i].thrown = NoThrow
  /\ IF error # NoThrow
     THEN /\ inv' = [inv EXCEPT ![i] = [@ EXCEPT !.thrown = error]]
          /\ UNCHANGED <<subs, queue>>
     ELSE LET acc == all(inputView)
          IN /\ inv' = [inv EXCEPT ![i] = joinThen(@, inputView, 1)]
             /\ subs' = subscribe(subs, input, acc.thens, i)
             /\ queue' = queue \o scheduled(input, acc.thens, i, 1)
                               \o thenTask(PendingPromise, acc.promise, i, 1)
  /\ UNCHANGED <<envVars, input>>

map(i) ==
  /\ op = "map"
  /\ seqCall(i, mapValidate(args))

filter(i) ==
  /\ op = "filter"
  /\ seqCall(i, filterValidate(args))

\* A continuation of the current join runs.
allDeliver ==
  /\ op \in {"map", "filter"}
  /\ queue # <<>>
  /\ Head(queue).kind = "deliver"
  /\ LET t == Head(queue)
         a == inv[t.inv]
         entry == IF t.pass = 1 THEN inputView[t.pos] ELSE a.work[t.pos]
         b == allHandler(a, entry, t.pos)
     IN /\ inv' = [inv EXCEPT ![t.inv] = b]
        /\ queue' = Tail(queue) \o thenTask(a.jp, b.jp, t.inv, t.pass)
  /\ UNCHANGED <<envVars, input, subs>>

\* The returned promise of pass p takes the outcome of the joined promise
\* (no rejection handler was given to then).
passThrough(a, p) == [a EXCEPT !.ret[p] = reject(@, a.jp.reason)]

----------------------------------------------------------------------------
(* map: the callback given to then.                                        *)

\* mapFn(value), an uninterpreted pure function of the value.
mapFn(item) == [tag |-> "mapped", of |-> item.val]
ThrownError == "thrown"

\* Faulty variant: a raise of mapFn is caught and the item skipped.
RECURSIVE mapLoopSwallowsThrow(_, _, _, _)
mapLoopSwallowsThrow(results, kinds, i, acc) ==
  IF i > Len(results) THEN acc
  ELSE mapLoopSwallowsThrow(results, kinds, i + 1,
         IF kinds[i] = "X"
         THEN [acc EXCEPT !.calls = Append(@, results[i].idx)]
         ELSE [acc EXCEPT !.calls = Append(@, results[i].idx),
                          !.mappedResults = Append(@, mapFn(results[i]))])

\* Faulty variant: mapFn is invoked a second time on each item.
RECURSIVE mapLoopCallsTwice(_, _, _, _)
mapLoopCallsTwice(results, kinds, i, acc) ==
  IF i > Len(results) \/ acc.thrown THEN acc
  ELSE mapLoopCallsTwice(results, kinds, i + 1,
         IF kinds[i] = "X"
         THEN [acc EXCEPT !.calls = Append(@, results[i].idx), !.thrown = TRUE]
         ELSE [acc EXCEPT !.calls = Append(Append(@, results[i].idx),
                                           results[i].idx),
                          !.mappedResults = Append(@, mapFn(results[i]))])

\* Faulty variant: the results are pushed at the front.
RECURSIVE mapLoopPrepends(_, _, _, _)
mapLoopPrepends(results, kinds, i, acc) ==
  IF i > Len(results) \/ acc.thrown THEN acc
  ELSE mapLoopPrepends(results, kinds, i + 1,
         IF kinds[i] = "X"
         THEN [acc EXCEPT !.calls = Append(@, results[i].idx), !.thrown = TRUE]
         ELSE [acc EXCEPT !.calls = Append(@, results[i].idx),
                          !.mappedResults = <<mapFn(results[i])>> \o @])

RECURSIVE mapLoop(_, _, _, _)
mapLoop(results, kinds, i, acc) ==
  IF i > Len(results) \/ acc.thrown THEN acc
  ELSE mapLoop(results, kinds, i + 1,
         IF kinds[i] = "X"
         THEN [acc EXCEPT !.calls = Append(@, results[i].idx), !.thrown = TRUE]
         ELSE [acc EXCEPT !.calls = Append(@, results[i].idx),
                          !.mappedResults = Append(@, mapFn(results[i]))])

mapCallback(a, kinds) ==
  LET acc == mapLoop(a.jp.value, kinds, 1,
                     [mappedResults |-> <<>>, calls |-> <<>>, thrown |-> FALSE])
      logged == [j \in 1..Len(acc.calls) |-> [pass |-> 1, idx |-> acc.calls[j]]]
  IN [a EXCEPT !.calls = @ \o logged,
               !.ret[1] = IF acc.thrown THEN reject(@, ThrownError)
                          ELSE resolve(@, acc.mappedResults)]

\* What the callback does on each position of `results`, were it invoked.
Choices(results, kindSet) ==
  IF pure
  THEN {[j \in 1..Len(results) |-> fnKind[results[j].val]]}
  ELSE [1..Len(results) -> kindSet]

\* Faulty variant: a rejection handler that swallows the reason is given to
\* then.
mapBodySwallowsRejection ==
  /\ op = "map"
  /\ queue # <<>>
  /\ Head(queue).kind = "body"
  /\ LET t == Head(queue)
         a == inv[t.inv]
     IN IF a.jp.state = "fulfilled"
        THEN \E kinds \in Choices(a.jp.value, MapKinds) :
               inv' = [inv EXCEPT ![t.inv] = mapCallback(a, kinds)]
        ELSE inv' = [inv EXCEPT ![t.inv].ret[1] = resolve(@, <<>>)]
  /\ queue' = Tail(queue)
  /\ UNCHANGED <<envVars, input, subs>>

mapBody ==
  /\ op = "map"
  /\ queue # <<>>
  /\ Head(queue).kind = "body"
  /\ LET t == Head(queue)
         a == inv[t.inv]
     IN IF a.jp.state = "fulfilled"
        THEN \E kinds \in Choices(a.jp.value, MapKinds) :
               inv' = [inv EXCEPT ![t.inv] = mapCallback(a, kinds)]
        ELSE inv' = [inv EXCEPT ![t.inv] = passThrough(a, 1)]
  /\ queue' = Tail(queue)
  /\ UNCHANGED <<envVars, input, subs>>

----------------------------------------------------------------------------
(* filter: the callback given to then, and the marker promises.            *)

\* An element of filteredResults: a kept item ...
Kept(item) ==
  [isPromise |-> FALSE, state |-> "plain", value |-> item, reason |-> "none",
   orig |-> item, pk |-> "na", pstate |-> "na", preason |-> "none"]

\* ... or FilterResult.fromFilterPromise(promise, originalValue), where the
\* promise returned by the predicate is of kind pk.
fromFilterPromise(pk, originalValue) ==
  [isPromise |-> TRUE, state |-> "pending", value |-> originalValue,
   reason |-> "none", orig |-> originalValue, pk |-> pk,
   pstate |-> "pending", preason |-> "none"]

\* Faulty variant: the resolved marker itself is pushed, not its value.
RECURSIVE filterLoopKeepsMarker(_, _, _, _)
filterLoopKeepsMarker(results, kinds, i, acc) ==
  IF i > Len(results) THEN acc
  ELSE LET result == results[i]
           called == [acc EXCEPT !.calls = Append(@, result.idx)]
       IN filterLoopKeepsMarker(results, kinds, i + 1,
            IF result.tag = "FilterResult"
            THEN IF result.ok
                 THEN [acc EXCEPT !.filteredResults = Append(@, Kept(result))]
                 ELSE acc
            ELSE IF kinds[i] \in {"PT", "PF", "PR"}
            THEN [called EXCEPT !.hasPromises = TRUE,
                                !.filteredResults =
                                   Append(@, fromFilterPromise(kinds[i], result))]
            ELSE IF kinds[i] = "T"
            THEN [called EXCEPT !.filteredResults = Append(@, Kept(result))]
            ELSE called)

\* Faulty variant: a marker is put at the front of filteredResults.
RECURSIVE filterLoopMarkerFirst(_, _, _, _)
filterLoopMarkerFirst(results, kinds, i, acc) ==
  IF i > Len(results) THEN acc
  ELSE LET result == results[i]
           called == [acc EXCEPT !.calls = Append(@, result.idx)]
       IN filterLoopMarkerFirst(results, kinds, i + 1,
            IF result.tag = "FilterResult"
            THEN IF result.ok
                 THEN [acc EXCEPT !.filteredResults =
                                     Append(@, Kept(Item(result.idx, result.val)))]
                 ELSE acc
            ELSE IF kinds[i] \in {"PT", "PF", "PR"}
            THEN [called EXCEPT !.hasPromises = TRUE,
                                !.filteredResults =
                                   <<fromFilterPromise(kinds[i], result)>> \o @]
            ELSE IF kinds[i] = "T"
            THEN [called EXCEPT !.filteredResults = Append(@, Kept(result))]
            ELSE called)

\* Faulty variant: the predicate is asked again about the item of a marker
\* resolved to presence.
RECURSIVE filterLoopAsksAgain(_, _, _, _)
filterLoopAsksAgain(results, kinds, i, acc) ==
  IF i > Len(results) THEN acc
  ELSE LET result == Item(results[i].idx, results[i].val)
           called == [acc EXCEPT !.calls = Append(@, result.idx)]
       IN filterLoopAsksAgain(results, kinds, i + 1,
            IF results[i].tag = "FilterResult" /\ ~results[i].ok
            THEN acc
            ELSE IF kinds[i] \in {"PT", "PF", "PR"}
            THEN [called EXCEPT !.hasPromises = TRUE,
                                !.filteredResults =
                                   Append(@, fromFilterPromise(kinds[i], result))]
            ELSE IF kinds[i] = "T"
            THEN [called EXCEPT !.filteredResults = Append(@, Kept(result))]
            ELSE called)

\* Faulty variant: a resolved marker is kept whatever its flag.
RECURSIVE filterLoopIgnoresFlag(_, _, _, _)
filterLoopIgnoresFlag(results, kinds, i, acc) ==
  IF i > Len(results) THEN acc
  ELSE LET result == results[i]
           called == [acc EXCEPT !.calls = Append(@, result.idx)]
       IN filterLoopIgnoresFlag(results, kinds, i + 1,
            IF result.tag = "FilterResult"
            THEN [acc EXCEPT !.filteredResults =
                                Append(@, Kept(Item(result.idx, result.val)))]
            ELSE IF kinds[i] \in {"PT", "PF", "PR"}
            THEN [called EXCEPT !.hasPromises = TRUE,
                                !.filteredResults =
                                   Append(@, fromFilterPromise(kinds[i], result))]
            ELSE IF kinds[i] = "T"
            THEN [called EXCEPT !.filteredResults = Append(@, Kept(result))]
            ELSE called)

RECURSIVE filterLoop(_, _, _, _)
filterLoop(results, kinds, i, acc) ==
  IF i > Len(results) THEN acc
  ELSE LET result == results[i]
           called == [acc EXCEPT !.calls = Append(@, result.idx)]
       IN filterLoop(results, kinds, i + 1,
            IF result.tag = "FilterResult"
            THEN IF result.ok
                 THEN [acc EXCEPT !.filteredResults =
                                     Append(@, Kept(Item(result.idx, result.val)))]
                 ELSE acc
            ELSE IF kinds[i] \in {"PT", "PF", "PR"}
            THEN [called EXCEPT !.hasPromises = TRUE,
                                !.filteredResults =
                                   Append(@, fromFilterPromise(kinds[i], result))]
            ELSE IF kinds[i] = "T"
            THEN [called EXCEPT !.filteredResults = Append(@, Kept(result))]
            ELSE called)

filterCallback(a, kinds) ==
  LET acc == filterLoop(a.jp.value, kinds, 1,
                        [filteredResults |-> <<>>, hasPromises |-> FALSE,
                         calls |-> <<>>])
      logged == [j \in 1..Len(acc.calls) |-> [pass |-> a.pass, idx |-> acc.calls[j]]]
      b == [a EXCEPT !.calls = @ \o logged]
  IN IF acc.hasPromises
     THEN joinThen([b EXCEPT !.work = acc.filteredResults],
                   acc.filteredResults, a.pass + 1)
     ELSE [b EXCEPT !.ret[a.pass] =
              resolve(@, [j \in 1..Len(acc.filteredResults) |->
                            acc.filteredResults[j].value])]

\* The predicate answers with a future on some item it is invoked on.
AnswersFuture(results, kinds) ==
  \E j \in DOMAIN results :
    results[j].tag = "item" /\ kinds[j] \in {"PT", "PF", "PR"}

filterBody ==
  /\ op = "filter"
  /\ queue # <<>>
  /\ Head(queue).kind = "body"
  /\ LET t == Head(queue)
         a == inv[t.inv]
     IN IF a.jp.state = "fulfilled"
        THEN \E kinds \in Choices(a.jp.value, PredKinds) :
               LET b == filterCallback(a, kinds)
               IN /\ a.pass < MaxPass \/ ~AnswersFuture(a.jp.value, kinds)
                  /\ inv' = [inv EXCEPT ![t.inv] = b]
                  /\ queue' = Tail(queue)
                       \o (IF b.pass > a.pass
                           THEN thenTask(PendingPromise, b.jp, t.inv, b.pass)
                           ELSE adoptTask(t.inv, a.pass))
        ELSE /\ inv' = [inv EXCEPT ![t.inv] = passThrough(a, a.pass)]
             /\ queue' = Tail(queue) \o adoptTask(t.inv, a.pass)
  /\ UNCHANGED <<envVars, input, subs>>

\* The environment settles the promise a predicate call returned.
SettlePred(i, pos) ==
  /\ op = "filter"
  /\ inv[i].pass > 1
  /\ pos \in DOMAIN inv[i].work
  /\ inv[i].work[pos].pstate = "pending"
  /\ \/ /\ inv[i].work[pos].pk \in {"PT", "PF"}
        /\ inv' = [inv EXCEPT ![i].work[pos].pstate = "fulfilled"]
     \/ /\ inv[i].work[pos].pk = "PR"
        /\ \E r \in Reasons :
             inv' = [inv EXCEPT ![i].work[pos].pstate = "rejected",
                                ![i].work[pos].preason = r]
  /\ queue' = Append(queue, Task("wrap", i, pos, inv[i].pass))
  /\ UNCHANGED <<envVars, input, subs>>

\* Faulty variant: a rejection of the predicate's promise is turned into an
\* absent item.
wrapSwallowsRejection(m) ==
  [m EXCEPT !.state = "fulfilled",
            !.value = FilterResult(m.orig, m.pstate = "fulfilled" /\ m.pk = "PT")]

\* The continuation fromFilterPromise attached to the predicate's promise.
wrap(m) ==
  IF m.pstate = "fulfilled"
  THEN [m EXCEPT !.state = "fulfilled",
                 !.value = FilterResult(m.orig, m.pk = "PT")]
  ELSE [m EXCEPT !.state = "rejected", !.reason = m.preason]

filterWrap ==
  /\ queue # <<>>
  /\ Head(queue).kind = "wrap"
  /\ LET t == Head(queue)
     IN /\ inv' = [inv EXCEPT ![t.inv].work[t.pos] = wrap(@)]
        /\ queue' = Append(Tail(queue), Task("deliver", t.inv, t.pos, t.pass))
  /\ UNCHANGED <<envVars, input, subs>>

\* The promise of pass p was resolved with the promise of pass p + 1.
adopt(a, p) ==
  [a EXCEPT !.ret[p] = IF a.ret[p + 1].state = "fulfilled"
                       THEN resolve(@, a.ret[p + 1].value)
                       ELSE reject(@, a.ret[p + 1].reason)]

filterAdopt ==
  /\ queue # <<>>
  /\ Head(queue).kind = "adopt"
  /\ LET t == Head(queue)
     IN /\ inv' = [inv EXCEPT ![t.inv] = adopt(@, t.pass)]
        /\ queue' = Tail(queue) \o adoptTask(t.inv, t.pass)
  /\ UNCHANGED <<envVars, input, subs>>

----------------------------------------------------------------------------
(* rethrow, used directly and as the failure handler of promise.fail.      *)

RtIdle ==
  /\ timers = <<>>
  /\ uncaught = <<>>
  /\ raised = <<>>
  /\ rethrown = <<>>
  /\ seen = <<>>

\* Faulty variant: the setTimeout call is missing.
rethrowForgetsTimer(scheduledTimers, reason) ==
  [timers |-> scheduledTimers, throws |-> reason]

\* rethrow(reason): what the call leaves behind, given the timers so far:
\* the timer queue after setTimeout, and the reason it throws.
rethrow(scheduledTimers, reason) ==
  [timers |-> Append(scheduledTimers, reason), throws |-> reason]

\* User code calls rethrow(reason) itself; the throw reaches the caller.
rethrowDirect ==
  /\ op = "rethrow"
  /\ Len(raised) < MaxDirect
  /\ \E reason \in Reasons :
       LET out == rethrow(timers, reason)
       IN /\ timers' = out.timers
          /\ raised' = Append(raised, out.throws)
          /\ rethrown' = Append(rethrown, reason)
  /\ UNCHANGED <<invs, op, args, fnKind, pure, input, subs, queue, inv,
                 chain, uncaught, seen>>

\* The head of the chain settles; its continuation is scheduled.
rethrowSettle ==
  /\ op = "rethrow"
  /\ chain[1].state = "pending"
  /\ \/ \E v \in Vals : chain' = [chain EXCEPT ![1] = resolve(@, <<v>>)]
     \/ \E r \in Reasons : chain' = [chain EXCEPT ![1] = reject(@, r)]
  /\ queue' = Append(queue, Task("link", 1, 1, 0))
  /\ UNCHANGED <<invs, op, args, fnKind, pure, input, subs, inv,
                 timers, uncaught, raised, rethrown, seen>>

\* The continuation of chain[j]: for j < Len(chain) that of
\* chain[j].fail(rethrow), which settles chain[j + 1]: a fulfilment passes
\* through, a rejection calls rethrow, whose throw rejects chain[j + 1].
\* For the last promise, the handlers of .then(onFulfilled, onRejected).
rethrowLink ==
  /\ op = "rethrow"
  /\ queue # <<>>
  /\ Head(queue).kind = "link"
  /\ LET j == Head(queue).pos
         p == chain[j]
     IN IF j = Len(chain)
        THEN /\ seen' = Append(seen, IF p.state = "fulfilled"
                                     THEN [handler |-> "onFulfilled", arg |-> "value"]
                                     ELSE [handler |-> "onRejected", arg |-> p.reason])
             /\ queue' = Tail(queue)
             /\ UNCHANGED <<chain, timers, rethrown>>
        ELSE /\ IF p.state = "fulfilled"
                THEN /\ chain' = [chain EXCEPT ![j + 1] = resolve(@, p.value)]
                     /\ UNCHANGED <<timers, rethrown>>
                ELSE LET out == rethrow(timers, p.reason)
                     IN /\ timers' = out.timers
                        /\ rethrown' = Append(rethrown, p.reason)
                        /\ chain' = [chain EXCEPT ![j + 1] = reject(@, out.throws)]
             /\ queue' = Append(Tail(queue), Task("link", 1, j + 1, 0))
             /\ UNCHANGED seen
  /\ UNCHANGED <<invs, op, args, fnKind, pure, input, subs, inv,
                 uncaught, raised>>

\* A later turn of the event loop runs the oldest timer task, which throws.
rethrowTimer ==
  /\ op = "rethrow"
  /\ timers # <<>>
  /\ uncaught' = Append(uncaught, Head(timers))
  /\ timers' = Tail(timers)
  /\ UNCHANGED <<invs, op, args, fnKind, pure, input, subs, queue, inv,
                 chain, raised, rethrown, seen>>

\* A chain promise.fail(rethrow)...fail(rethrow).then(onFulfilled, onRejected)
\* with 1..MaxChain links, nothing settled yet.
InitRethrow ==
  /\ invs = {1}
  /\ op = "rethrow"
  /\ args = [isArray |-> TRUE, isFunction |-> TRUE]
  /\ fnKind = [v \in Vals |-> "T"]
  /\ pure = TRUE
  /\ input = <<>>
  /\ subs = <<>>
  /\ queue = <<>>
  /\ inv = [i \in {1} |-> NotCalled]
  /\ \E n \in 1..MaxChain : chain = [j \in 1..(n + 1) |-> PendingPromise]
  /\ RtIdle

NextRethrow ==
  \/ rethrowDirect
  \/ rethrowSettle
  \/ rethrowLink
  \/ rethrowTimer

SpecRethrow == InitRethrow /\ [][NextRethrow]_vars

----------------------------------------------------------------------------

Domains(o) ==
  IF o = "hash" THEN SUBSET (1..MaxKeys) ELSE {1..n : n \in 0..MaxLen}

FnTables(o) ==
  IF o = "map" THEN [Vals -> MapKinds]
  ELSE IF o = "filter" THEN [Vals -> PredKinds]
  ELSE {[v \in Vals |-> "T"]}

ArgShapes(o) ==
  IF o = "hash" THEN {[isArray |-> TRUE, isFunction |-> TRUE]}
  ELSE [isArray : BOOLEAN, isFunction : BOOLEAN]

InitWith(I) ==
  /\ invs = I
  /\ op \in {"hash", "map", "filter"}
  /\ args \in ArgShapes(op)
  /\ pure = TRUE
  /\ IF args.isFunction
     THEN fnKind \in FnTables(op)
     ELSE fnKind = [v \in Vals |-> "F"]
  /\ IF args.isArray
     THEN \E D \in Domains(op) :
            input \in [D -> {Plain(v) : v \in Vals} \cup {PendingEntry}]
     ELSE input = <<>>
  /\ subs = [k \in DOMAIN input |-> <<>>]
  /\ queue = <<>>
  /\ inv = [i \in I |-> NotCalled]
  /\ chain = <<>>
  /\ RtIdle

Init == InitWith({1})

\* filter on valid arguments, with a predicate free to answer differently
\* each time it is called.
InitImpure ==
  /\ invs = {1}
  /\ op = "filter"
  /\ args = [isArray |-> TRUE, isFunction |-> TRUE]
  /\ pure = FALSE
  /\ fnKind = [v \in Vals |-> "T"]
  /\ \E D \in Domains(op) :
       input \in [D -> {Plain(v) : v \in Vals} \cup {PendingEntry}]
  /\ subs = [k \in DOMAIN input |-> <<>>]
  /\ queue = <<>>
  /\ inv = [i \in invs |-> NotCalled]
  /\ chain = <<>>
  /\ RtIdle

Next ==
  \/ \E i \in invs : hash(i)
  \/ \E i \in invs : map(i)
  \/ \E i \in invs : filter(i)
  \/ \E k \in DOMAIN input : Settle(k)
  \/ hashDeliver
  \/ allDeliver
  \/ mapBody
  \/ filterBody
  \/ \E i \in invs : \E pos \in 1..MaxLen : SettlePred(i, pos)
  \/ filterWrap
  \/ filterAdopt

Spec == Init /\ [][Next]_vars

\* Two invocations of one combinator on the same inputs, all of them settled
\* before the first call: plain values, fulfilled and rejected futures.
SettledEntries ==
  {Plain(v) : v \in Vals}
    \cup {[PendingEntry EXCEPT !.state = "fulfilled", !.value = v] : v \in Vals}
    \cup {[PendingEntry EXCEPT !.state = "rejected", !.reason = r] : r \in Reasons}

InitSettled ==
  /\ invs = {1, 2}
  /\ op \in {"hash", "map", "filter"}
  /\ args \in ArgShapes(op)
  /\ pure = TRUE
  /\ IF args.isFunction
     THEN fnKind \in FnTables(op)
     ELSE fnKind = [v \in Vals |-> "F"]
  /\ IF args.isArray
     THEN \E n \in 0..MaxSettled : input \in [1..n -> SettledEntries]
     ELSE input = <<>>
  /\ subs = [k \in DOMAIN input |-> <<>>]
  /\ queue = <<>>
  /\ inv = [i \in invs |-> NotCalled]
  /\ chain = <<>>
  /\ RtIdle

NextSettled ==
  \/ \E i \in invs : hash(i)
  \/ \E i \in invs : map(i)
  \/ \E i \in invs : filter(i)
  \/ hashDeliver
  \/ allDeliver
  \/ mapBody
  \/ filterBody
  \/ \E i \in invs : \E pos \in 1..MaxLen : SettlePred(i, pos)
  \/ filterWrap
  \/ filterAdopt

SpecSettled == InitSettled /\ [][NextSettled]_vars

\* hash alone, with the event loop running every scheduled continuation.
InitHash ==
  /\ op = "hash"
  /\ InitWith({1})

NextHash ==
  \/ \E i \in invs : hash(i)
  \/ \E k \in DOMAIN input : Settle(k)
  \/ hashDeliver

SpecHashFair == InitHash /\ [][NextHash]_vars /\ WF_vars(hashDeliver)

NextImpure ==
  \/ \E i \in invs : filter(i)
  \/ \E k \in DOMAIN input : Settle(k)
  \/ allDeliver
  \/ filterBody
  \/ \E i \in invs : \E pos \in 1..MaxLen : SettlePred(i, pos)
  \/ filterWrap
  \/ filterAdopt

SpecImpure == InitImpure /\ [][NextImpure]_vars

----------------------------------------------------------------------------
(* Properties of hash.                                                     *)

Called(i) == inv[i].pass > 0
Returned(i) == inv[i].ret[1]
FutureKeys == {k \in DOMAIN input : input[k].isPromise}
PlainKeys == {k \in DOMAIN input : ~input[k].isPromise}

\* The mapping of every key to its entry's resolved value.
ResolvedMapping == [k \in DOMAIN input |-> input[k].value]

\* The head task is a continuation of invocation i on a rejected entry, and
\* this step runs it.
RunsRejection(i) ==
  /\ queue # <<>>
  /\ Head(queue).kind = "deliver"
  /\ Head(queue).inv = i
  /\ queue' = Tail(queue)

\* C1: for a non-empty mapping, the promise hash returned is fulfilled only
\* when every future entry has fulfilled, and its value is then a mapping
\* with exactly the input's keys, each key holding its entry's resolved
\* value.
C1_HashFulfilsWithEveryKey ==
  \A i \in invs :
    (op = "hash" /\ Called(i) /\ DOMAIN input # {}
       /\ Returned(i).state = "fulfilled")
    => /\ \A k \in FutureKeys : input[k].state = "fulfilled"
       /\ DOMAIN Returned(i).value = DOMAIN input
       /\ \A k \in DOMAIN input : Returned(i).value[k] = input[k].value

C1_Witness ==
  /\ op = "hash"
  /\ Cardinality(FutureKeys) >= 2
  /\ PlainKeys # {}
  /\ Called(1)
  /\ Returned(1).state = "fulfilled"
  /\ \E j, k \in FutureKeys : input[j].value # input[k].value

\* C2: the first rejection delivered to hash rejects the returned promise
\* with that entry's reason, unwrapped; once rejected the promise never
\* changes again (no later rejection or fulfilment alters state or reason,
\* and no partial mapping is ever its value); a rejection is never delivered
\* to an already fulfilled promise.
C2_HashFirstRejectionWins ==
  [][\A i \in invs :
       (op = "hash" /\ Called(i)) =>
         /\ (Returned(i).state = "rejected" =>
               /\ inv'[i].ret = inv[i].ret
               /\ Returned(i).value = <<>>)
         /\ (RunsRejection(i) /\ input[Head(queue).pos].state = "rejected") =>
               /\ Returned(i).state # "fulfilled"
               /\ inv'[i].ret[1].state = "rejected"
               /\ Returned(i).state = "pending" =>
                    inv'[i].ret[1].reason = input[Head(queue).pos].reason]_vars

\* Two entries rejected with different reasons, a third fulfilled, every
\* continuation has run: the promise holds one of the two reasons.
C2_Witness ==
  /\ op = "hash"
  /\ Called(1)
  /\ queue = <<>>
  /\ Returned(1).state = "rejected"
  /\ \E j, k \in FutureKeys :
       /\ input[j].state = "rejected" /\ input[k].state = "rejected"
       /\ input[j].reason # input[k].reason
  /\ \E k \in FutureKeys : input[k].state = "fulfilled"
  /\ inv[1].remaining < Cardinality(DOMAIN input)

\* C9: for a mapping mixing plain values and futures that all fulfil, once
\* every continuation has run the returned promise is fulfilled with the
\* mapping of each key to its resolved value, whatever the order in which
\* the futures settled relative to each other and to the call that records
\* the plain values.
C9_HashOrderIndependent ==
  \A i \in invs :
    (/\ op = "hash" /\ Called(i)
     /\ FutureKeys # {} /\ PlainKeys # {}
     /\ \A k \in FutureKeys : input[k].state = "fulfilled"
     /\ queue = <<>>)
    => /\ Returned(i).state = "fulfilled"
       /\ Returned(i).value = ResolvedMapping
       /\ inv[i].remaining = 0

\* Two futures and a plain value, every continuation has run.
C9_Witness ==
  /\ op = "hash"
  /\ Called(1)
  /\ Cardinality(FutureKeys) = 2
  /\ Cardinality(PlainKeys) = 1
  /\ queue = <<>>
  /\ Returned(1).state = "fulfilled"
  /\ Returned(1).value = ResolvedMapping

\* C10: hash of a mapping without keys returns a promise that is already
\* fulfilled with the empty mapping when the call returns; nothing was
\* scheduled or waited for.
C10_HashEmptyFulfilsAtOnce ==
  [][\A i \in invs :
       (op = "hash" /\ DOMAIN input = {} /\ ~Called(i) /\ inv'[i] # inv[i])
       => /\ inv'[i].ret = <<[state |-> "fulfilled", value |-> <<>>,
                              reason |-> "none"]>>
          /\ inv'[i].remaining = 0
          /\ queue' = queue
          /\ subs' = subs]_vars

C10_Witness ==
  /\ op = "hash"
  /\ DOMAIN input = {}
  /\ Called(1)
  /\ Returned(1).state = "fulfilled"
  /\ Returned(1).value = <<>>

----------------------------------------------------------------------------
(* Properties of map and filter.                                           *)

SeqOp == op \in {"map", "filter"}
InvalidArgs == ~args.isArray \/ ~args.isFunction

\* The settled input items, in input order.
Items == [k \in DOMAIN input |-> Item(k, input[k].value)]
NoInputPending == \A k \in DOMAIN input : input[k].state # "pending"
NoInputRejected == \A k \in DOMAIN input : input[k].state # "rejected"
SomeInputRejected == \E k \in DOMAIN input : input[k].state = "rejected"

\* The predicate's outcome on an item is truthy.
Truthy(item) == fnKind[item.val] \in {"T", "PT"}
ExpectedFilter == SelectSeq(Items, Truthy)
ExpectedMap == [k \in DOMAIN input |-> mapFn(Items[k])]

Markers(i) == {pos \in DOMAIN inv[i].work : inv[i].work[pos].isPromise}
RejectedMarkers(i) ==
  {pos \in Markers(i) : inv[i].work[pos].pstate = "rejected"}

\* Nothing is left to happen for invocation i.
Quiescent(i) ==
  /\ Called(i)
  /\ queue = <<>>
  /\ NoInputPending
  /\ \A pos \in Markers(i) : inv[i].work[pos].pstate # "pending"

Rejected(r) == [state |-> "rejected", value |-> <<>>, reason |-> r]

\* C3: with inputs that all fulfil and a predicate whose outcome depends
\* only on the item (plain, or a future that fulfils), filter fulfils with
\* exactly the subsequence of the settled items whose predicate outcome is
\* truthy; the kept elements are the original items.
C3_FilterKeepsTruthyItems ==
  \A i \in invs :
    (op = "filter" /\ pure /\ Called(i)) =>
      /\ Returned(i).state = "fulfilled" =>
           /\ NoInputPending /\ NoInputRejected
           /\ Returned(i).value = ExpectedFilter
      /\ (/\ Quiescent(i) /\ NoInputRejected
          /\ \A k \in DOMAIN input : fnKind[input[k].value] # "PR")
         => Returned(i).state = "fulfilled"

\* Two items, the predicate answers one with a future that fulfils truthy
\* and the other with a future that fulfils falsy.
C3_Witness ==
  /\ op = "filter"
  /\ Called(1)
  /\ Len(input) = 2
  /\ input[1].isPromise
  /\ inv[1].pass = 2
  /\ Returned(1).state = "fulfilled"
  /\ fnKind[input[1].value] = "PF"
  /\ fnKind[input[2].value] = "PT"
  /\ Returned(1).value = <<Item(2, input[2].value)>>

\* C4: with inputs that all fulfil and a transform that returns, map fulfils
\* with a sequence as long as the input whose i-th element is the transform
\* of the i-th settled value, whatever the order of settlement.
C4_MapTransformsInOrder ==
  \A i \in invs :
    (op = "map" /\ Called(i)) =>
      /\ Returned(i).state = "fulfilled" =>
           /\ NoInputPending /\ NoInputRejected
           /\ Len(Returned(i).value) = Len(input)
           /\ \A k \in DOMAIN input :
                Returned(i).value[k] = mapFn(Item(k, input[k].value))
      /\ (/\ Quiescent(i) /\ NoInputRejected
          /\ \A k \in DOMAIN input : fnKind[input[k].value] # "X")
         => Returned(i).state = "fulfilled"

C4_Witness ==
  /\ op = "map"
  /\ Called(1)
  /\ Len(input) = 2
  /\ input[1].isPromise /\ input[2].isPromise
  /\ input[1].value # input[2].value
  /\ Returned(1).state = "fulfilled"
  /\ Returned(1).value = ExpectedMap

\* This step runs a continuation of invocation i's join on entry e.
DeliversRejected(i) ==
  /\ RunsRejection(i)
  /\ IF Head(queue).pass = 1
     THEN input[Head(queue).pos].state = "rejected"
     ELSE inv[i].work[Head(queue).pos].state = "rejected"

C5_State ==
  \A i \in invs :
    (SeqOp /\ Called(i)) =>
      /\ SomeInputRejected =>
           /\ Returned(i).state # "fulfilled"
           /\ inv[i].pass = 1
           /\ inv[i].calls = <<>>
      /\ (inv[i].pass = 1 /\ inv[i].jp.state = "rejected") =>
           /\ \E k \in DOMAIN input : /\ input[k].state = "rejected"
                                      /\ input[k].reason = inv[i].jp.reason
           /\ Returned(i) \in {PendingPromise, Rejected(inv[i].jp.reason)}
           /\ queue = <<>> => Returned(i) = Rejected(inv[i].jp.reason)

C5_Step ==
  \A i \in invs :
    (SeqOp /\ Called(i) /\ inv[i].pass = 1) =>
      /\ (DeliversRejected(i) /\ inv[i].jp.state = "pending") =>
           inv'[i].jp = Rejected(input[Head(queue).pos].reason)
      /\ inv[i].jp.state = "rejected" => inv'[i].jp = inv[i].jp
      /\ Returned(i).state = "rejected" => inv'[i].ret = inv[i].ret

C6_State ==
  \A i \in invs :
    (SeqOp /\ InvalidArgs) =>
      /\ inv[i].pass = 0
      /\ inv[i].ret = <<>>
      /\ inv[i].jp = PendingPromise
      /\ inv[i].calls = <<>>
      /\ queue = <<>>
      /\ \A k \in DOMAIN subs : subs[k] = <<>>

C6_Step ==
  \A i \in invs :
    (SeqOp /\ InvalidArgs /\ inv'[i] # inv[i]) =>
      /\ inv[i].thrown = NoThrow
      /\ inv'[i].thrown.name = "TypeError"

\* C6: map or filter called with a first argument that is not an array, or
\* a second that is not a function, raises a TypeError in the call itself:
\* no join is started, no continuation is attached to or scheduled for any
\* input, the callback is never invoked and no promise is returned.
C6_InvalidArgumentsThrow == []C6_State /\ [][C6_Step]_vars

\* The sequence is fine and holds a settled future, the callback is not a
\* function: the call has thrown.
C6_Witness ==
  /\ SeqOp
  /\ args.isArray /\ ~args.isFunction
  /\ Len(input) = 2
  /\ \E k \in DOMAIN input : input[k].state = "fulfilled"
  /\ inv[1].thrown.name = "TypeError"

C7_State ==
  \A i \in invs :
    (op = "filter" /\ Called(i) /\ RejectedMarkers(i) # {}) =>
      /\ \A p \in DOMAIN inv[i].ret : inv[i].ret[p].state # "fulfilled"
      /\ inv[i].jp.state = "rejected" =>
           \E pos \in RejectedMarkers(i) :
             inv[i].work[pos].preason = inv[i].jp.reason
      /\ queue = <<>> =>
           /\ inv[i].jp.state = "rejected"
           /\ Returned(i) = Rejected(inv[i].jp.reason)

C7_Step ==
  \A i \in invs :
    (op = "filter" /\ inv[i].pass > 1) =>
      /\ (DeliversRejected(i) /\ inv[i].jp.state = "pending") =>
           inv'[i].jp = Rejected(inv[i].work[Head(queue).pos].preason)
      /\ inv[i].jp.state = "rejected" =>
           /\ inv'[i].jp = inv[i].jp
           /\ inv'[i].pass = inv[i].pass
           /\ inv'[i].calls = inv[i].calls

\* C7: when a future returned by the predicate rejects, the promise filter
\* returned never fulfils (nor does the promise of any pass); it rejects
\* with the unwrapped reason of the first such rejection to reach the join
\* of the recursive pass, after which no pass is started and the predicate
\* is not invoked again.
C7_PredicateRejectionRejects == []C7_State /\ [][C7_Step]_vars

C7_Witness ==
  /\ op = "filter"
  /\ Called(1)
  /\ queue = <<>>
  /\ inv[1].pass = 2
  /\ Cardinality(RejectedMarkers(1)) = 2
  /\ inv[1].work[1].preason # inv[1].work[2].preason
  /\ Returned(1) = Rejected(inv[1].work[2].preason)

CallsOn(i, k) == {j \in DOMAIN inv[i].calls : inv[i].calls[j].idx = k}

\* C8: across all passes of one filter invocation the predicate is invoked
\* at most once per original item, only on the first pass, and exactly once
\* per item by the time the returned promise is fulfilled.
C8_PredicateOncePerItem ==
  \A i \in invs :
    (op = "filter" /\ Called(i)) =>
      /\ \A k \in DOMAIN input : Cardinality(CallsOn(i, k)) <= 1
      /\ \A j \in DOMAIN inv[i].calls : inv[i].calls[j].pass = 1
      /\ Returned(i).state = "fulfilled" =>
           \A k \in DOMAIN input : Cardinality(CallsOn(i, k)) = 1

----------------------------------------------------------------------------
(* Properties of rethrow.                                                  *)

RethrownLinks == {j \in 2..Len(chain) : chain[j].state = "rejected"}

C11_State ==
  op = "rethrow" =>
    \* one timer task per call, with the call's reason, run in order
    /\ uncaught \o timers = rethrown
    \* every call raised: into its direct caller, or into the promise whose
    \* failure handler it is
    /\ Len(rethrown) = Len(raised) + Cardinality(RethrownLinks)
    \* in-band, the original reason travels down the chain unchanged
    /\ \A j \in RethrownLinks : chain[j] = Rejected(chain[1].reason)
    /\ chain[1].state = "rejected" =>
         /\ \A j \in DOMAIN chain : chain[j].state # "fulfilled"
         /\ \A n \in DOMAIN seen :
              seen[n] = [handler |-> "onRejected", arg |-> chain[1].reason]
         /\ queue = <<>> =>
              seen = <<[handler |-> "onRejected", arg |-> chain[1].reason]>>

C11_Step ==
  (op = "rethrow" /\ rethrown' # rethrown) =>
    \E reason \in Reasons :
      /\ rethrown' = Append(rethrown, reason)
      /\ timers' = Append(timers, reason)
      /\ uncaught' = uncaught
      /\ \/ raised' = Append(raised, reason)
         \/ \E j \in 2..Len(chain) :
              /\ chain[j].state = "pending"
              /\ chain[j - 1] = Rejected(reason)
              /\ chain'[j] = Rejected(reason)

\* C11: every call of rethrow raises its reason in the call itself and
\* schedules exactly one timer task that raises the same reason on a later
\* turn; as the failure handler of a rejected promise it hands the original
\* reason unchanged to the next failure handler, and the next success
\* handler never runs.
C11_RethrowSurfacesAndPreserves == []C11_State /\ [][C11_Step]_vars

\* Two .fail(rethrow) links after a rejected promise: both timer tasks have
\* run, and the final failure handler got the original reason.
C11_Witness ==
  /\ op = "rethrow"
  /\ Len(chain) = 3
  /\ chain[1].state = "rejected"
  /\ raised = <<>>
  /\ timers = <<>>
  /\ uncaught = <<chain[1].reason, chain[1].reason>>
  /\ seen = <<[handler |-> "onRejected", arg |-> chain[1].reason]>>

----------------------------------------------------------------------------
(* Further properties of map and filter.                                   *)

\* The transform raises on the settled value of input k.
Raises(k) == fnKind[input[k].value] = "X"
RaisingInputs == {k \in DOMAIN input : Raises(k)}

\* C12: when the transform raises on a settled value, the call of map has
\* not thrown; the returned promise never fulfils (with a partial sequence
\* or any other), and once the callback has run it is rejected with the
\* raised error, the transform having been applied up to the first raising
\* item only.
C12_MapTransformRaiseRejects ==
  \A i \in invs :
    (op = "map" /\ Called(i)) =>
      /\ inv[i].thrown = NoThrow
      /\ Returned(i).state = "fulfilled" => RaisingInputs = {}
      /\ (NoInputPending /\ NoInputRejected /\ RaisingInputs # {}) =>
           /\ Returned(i) \in {PendingPromise, Rejected(ThrownError)}
           /\ Returned(i).state = "rejected" =>
                inv[i].calls = [k \in 1..Min(RaisingInputs) |->
                                  [pass |-> 1, idx |-> k]]
           /\ queue = <<>> => Returned(i) = Rejected(ThrownError)

\* The transform returns on the first item and raises on the second.
C12_Witness ==
  /\ op = "map"
  /\ Called(1)
  /\ Len(input) = 2
  /\ NoInputPending /\ NoInputRejected
  /\ input[2].isPromise
  /\ ~Raises(1) /\ Raises(2)
  /\ Returned(1) = Rejected(ThrownError)
  /\ Len(inv[1].calls) = 2

\* The elements of a sequence.
Range(seq) == {seq[j] : j \in DOMAIN seq}

\* C13: whenever a promise returned by filter (that of any pass) is
\* fulfilled, every element of its value is an item of the input, never a
\* marker; and every marker of the last output sequence has been resolved,
\* its item being in the result exactly when it resolved to presence.
C13_NoMarkerInResult ==
  \A i \in invs :
    (op = "filter" /\ Called(i)) =>
      /\ \A p \in DOMAIN inv[i].ret :
           inv[i].ret[p].state = "fulfilled" =>
             \A e \in Range(inv[i].ret[p].value) :
               /\ DOMAIN e = DOMAIN Item(1, "x")
               /\ e.tag = "item"
               /\ e.idx \in DOMAIN input
               /\ e = Items[e.idx]
      /\ Returned(i).state = "fulfilled" =>
           \A pos \in Markers(i) :
             LET m == inv[i].work[pos]
             IN /\ m.state = "fulfilled"
                /\ m.value.tag = "FilterResult"
                /\ m.value.ok <=> m.orig \in Range(Returned(i).value)

\* Two markers, one resolved to presence and one to absence.
C13_Witness ==
  /\ op = "filter"
  /\ Called(1)
  /\ Returned(1).state = "fulfilled"
  /\ Len(Returned(1).value) = 1
  /\ Cardinality(Markers(1)) = 2
  /\ \E pos \in Markers(1) : ~inv[1].work[pos].value.ok

\* C15: for every predicate, also one whose answers change between calls,
\* each pass after the first brings the unresolved markers to zero: the
\* output sequence of such a pass holds no marker, so that no further pass
\* is started and the number of passes is finite.
C15_FilterMarkersDrain ==
  \A i \in invs :
    (op = "filter" /\ Called(i) /\ inv[i].pass > 2) => Markers(i) = {}

\* A sequence of input items in input order, without repetition.
InInputOrder(items) ==
  /\ \A j \in DOMAIN items :
       items[j].idx \in DOMAIN input /\ items[j].val = input[items[j].idx].value
  /\ \A j1, j2 \in DOMAIN items : j1 < j2 => items[j1].idx < items[j2].idx

\* The items (kept, or behind a marker) of the current output sequence.
Survivors(a) == [j \in DOMAIN a.work |-> a.work[j].orig]
Indexes(items) == {items[j].idx : j \in DOMAIN items}

\* C16 (state): the output sequence of every pass, and every fulfilled
\* result, lists input items in input order without repetition, a marker
\* standing for its original item.
C16_State ==
  \A i \in invs :
    (op = "filter" /\ Called(i)) =>
      /\ InInputOrder(Survivors(inv[i]))
      /\ \A pos \in DOMAIN inv[i].work :
           inv[i].work[pos].value.idx = inv[i].work[pos].orig.idx
      /\ \A p \in DOMAIN inv[i].ret :
           inv[i].ret[p].state = "fulfilled" =>
             /\ InInputOrder(inv[i].ret[p].value)
             /\ inv[i].pass > 1 =>
                  Indexes(inv[i].ret[p].value) \subseteq Indexes(Survivors(inv[i]))

\* C16 (step): a pass inserts nothing: the items of its output sequence are
\* among those of the pass before.
C16_Step ==
  \A i \in invs :
    (op = "filter" /\ inv[i].pass > 1 /\ inv'[i].pass > inv[i].pass) =>
      Indexes(Survivors(inv'[i])) \subseteq Indexes(Survivors(inv[i]))

\* C16: the two parts together.
C16_PassesPreserveOrder == []C16_State /\ [][C16_Step]_vars

\* Both items survive two passes, the first one behind a marker, and the
\* result lists them in input order.
C16_Witness ==
  /\ op = "filter"
  /\ Called(1)
  /\ inv[1].pass = 2
  /\ Len(inv[1].work) = 2
  /\ inv[1].work[1].isPromise
  /\ Returned(1).state = "fulfilled"
  /\ Len(Returned(1).value) = 2

\* The invocations of the callback on the first pass, in the order made.
IsFirstPass(c) == c.pass = 1
FirstPassCalls(i) == SelectSeq(inv[i].calls, IsFirstPass)
OncePerItem(n) == [k \in 1..n |-> [pass |-> 1, idx |-> k]]

\* The callback given to then has run on the first pass.
FirstCallbackRan(i) ==
  /\ NoInputPending /\ NoInputRejected
  /\ inv[i].pass > 1 \/ Returned(i).state # "pending"

\* The items the callback is invoked on: all of them, or those up to the
\* first one on which it raises.
LastInvoked ==
  IF RaisingInputs = {} THEN Len(input) ELSE Min(RaisingInputs)

FutureAnswer(k) == fnKind[input[k].value] \in {"PT", "PF", "PR"}

Invoked(i) == inv[i].thrown # NoThrow \/ Called(i)

\* The reasons with which futures returned by the callback of invocation i
\* have rejected so far.
CallbackReasons(i) ==
  {inv[i].work[pos].preason : pos \in RejectedMarkers(i)}

\* C14 (state): two invocations of one combinator on the same settled
\* inputs throw alike; when both returned promises have settled, they have
\* settled alike: same state, same value, and same reason when the reason
\* is that of an input (a reason that comes from a future the callback
\* returned is the callback's, and is the same when the callback's futures
\* rejected with the same reason in both invocations).
C14_State ==
  \A i, j \in invs :
    /\ (Invoked(i) /\ Invoked(j)) =>
         /\ inv[i].thrown = inv[j].thrown
         /\ Called(i) <=> Called(j)
    /\ (Called(i) /\ Called(j) /\ Settled(Returned(i)) /\ Settled(Returned(j))) =>
         /\ Returned(i).state = Returned(j).state
         /\ Returned(i).value = Returned(j).value
         /\ (RejectedMarkers(i) = {} \/ RejectedMarkers(j) = {}) =>
              Returned(i) = Returned(j)
         /\ Cardinality(CallbackReasons(i) \cup CallbackReasons(j)) <= 1 =>
              Returned(i) = Returned(j)

\* C14 (step): a step reads and writes the activation of one invocation
\* only: the others keep their accumulators and their promises; a call
\* starts from a fresh accumulator and a fresh promise.
C14_Step ==
  /\ \E i \in invs : \A j \in invs \ {i} : inv'[j] = inv[j]
  /\ \A i \in invs :
       (~Invoked(i) /\ Called(i)') =>
         /\ inv'[i].pass = 1
         /\ Len(inv'[i].ret) = 1
         /\ inv'[i].calls = <<>>
         /\ inv'[i].work = <<>>

EveryEntryFulfilled ==
  \A k \in DOMAIN input : input[k].state \in {"plain", "fulfilled"}
SomeEntryRejected == \E k \in DOMAIN input : input[k].state = "rejected"
SomeEntryPending == \E k \in DOMAIN input : input[k].state = "pending"

\* C19 (fulfilment): once hash has been called and every entry has
\* fulfilled, the returned promise is eventually fulfilled.
C19_Fulfils ==
  (op = "hash" /\ Called(1) /\ EveryEntryFulfilled)
    ~> (Called(1) /\ Returned(1).state = "fulfilled")

\* C19 (rejection): once hash has been called and some entry has rejected,
\* the returned promise is eventually rejected.
C19_Rejects ==
  (op = "hash" /\ Called(1) /\ SomeEntryRejected)
    ~> (Called(1) /\ Returned(1).state = "rejected")

\* C19 (no partial result): while some entry is pending and none has
\* rejected, the returned promise is pending.
C19_StaysPending ==
  (op = "hash" /\ Called(1) /\ SomeEntryPending /\ ~SomeEntryRejected) =>
    Returned(1) = PendingPromise

\* C19: liveness of hash when every scheduled continuation is run.
C19_HashLiveness == C19_Fulfils /\ C19_Rejects /\ []C19_StaysPending

\* Every entry is a future; two have fulfilled and their continuations
\* have run, the last is pending, and so is the returned promise.
C19_Witness ==
  /\ op = "hash"
  /\ Called(1)
  /\ Cardinality(DOMAIN input) = MaxKeys
  /\ PlainKeys = {}
  /\ Cardinality({k \in DOMAIN input : input[k].state = "pending"}) = 1
  /\ ~SomeEntryRejected
  /\ queue = <<>>
  /\ inv[1].remaining = 1
  /\ Returned(1) = PendingPromise

====
